---- MODULE Spec2Model ----
(***************************************************************************)
(* Model of the fullswing OCR pipeline (ocr_processor.py) and of the       *)
(* views that drive it and share its tables (views.py).                    *)
(*                                                                         *)
(* Representation.                                                         *)
(*   - A character is its Unicode code point; a text is a sequence of      *)
(*     code points. Text(<<"1", ".", "5">>) writes one from characters.    *)
(*   - A float is the binary64 value: [neg, bits, exp] is the double       *)
(*     (-1)^neg * 1.b2b3... * 2^exp, bits the significand from its leading *)
(*     1 to its last 1. float() and / round to the nearest double, ties to *)
(*     even, overflow to inf and underflow to 0.0; natural numbers of any  *)
(*     size (sequences of base-10000 limbs) carry the exact division.      *)
(*   - Python's None is the empty tuple <<>>, a present value v is <<v>>.  *)
(*   - A dict is the sequence of its <<key, value>> items in insertion     *)
(*     order.                                                              *)
(***************************************************************************)
EXTENDS Integers, Sequences, FiniteSets, TLC

\* ---------------------------------------------------------------- bounds

\* Longest text, in characters, that the extraction is explored on.
MaxLen == 4
\* Longest text, in characters, that the view is explored on.
MaxViewLen == 2
\* Largest count of numbers in the generated long OCR texts.
MaxNumbers == 17
\* Most writes of other clients while one request is served.
MaxWrites == 2

\* ------------------------------------------------------- optional values

None == <<>>
Some(v) == <<v>>
IsNone(o) == o = <<>>
Get(o) == o[1]

\* ------------------------------------------------------------ characters

\* ord(c) for the characters the module writes as strings.
Ord(c) ==
  CASE c = "0" -> 48 [] c = "1" -> 49 [] c = "2" -> 50 [] c = "3" -> 51
    [] c = "4" -> 52 [] c = "5" -> 53 [] c = "6" -> 54 [] c = "7" -> 55
    [] c = "8" -> 56 [] c = "9" -> 57 [] c = "." -> 46 [] c = "-" -> 45
    [] c = "+" -> 43 [] c = " " -> 32 [] c = "/" -> 47 [] c = "m" -> 109
    [] c = "p" -> 112 [] c = "h" -> 104 [] c = "f" -> 102 [] c = "t" -> 116
    [] c = "r" -> 114 [] c = "s" -> 115 [] c = "M" -> 77 [] c = "P" -> 80
    [] c = "H" -> 72 [] c = "F" -> 70 [] c = "T" -> 84 [] c = "R" -> 82
    [] c = "S" -> 83 [] c = "O" -> 79 [] c = "o" -> 111 [] c = "l" -> 108
    [] c = "I" -> 73 [] c = "a" -> 97 [] c = "b" -> 98 [] c = "c" -> 99
    [] c = "°" -> 176

\* A text written as a tuple of characters.
Text(s) == [i \in 1..Len(s) |-> Ord(s[i])]

\* The runs <<first, last>> of the Unicode decimal digits (category Nd):
\* what \d of a str pattern matches and float() converts. Each run holds the
\* digits 0..9 in order, once or several times.
DigitRuns ==
  {
    <<48, 57>>, <<1632, 1641>>, <<1776, 1785>>, <<1984, 1993>>,
    <<2406, 2415>>, <<2534, 2543>>, <<2662, 2671>>, <<2790, 2799>>,
    <<2918, 2927>>, <<3046, 3055>>, <<3174, 3183>>, <<3302, 3311>>,
    <<3430, 3439>>, <<3558, 3567>>, <<3664, 3673>>, <<3792, 3801>>,
    <<3872, 3881>>, <<4160, 4169>>, <<4240, 4249>>, <<6112, 6121>>,
    <<6160, 6169>>, <<6470, 6479>>, <<6608, 6617>>, <<6784, 6793>>,
    <<6800, 6809>>, <<6992, 7001>>, <<7088, 7097>>, <<7232, 7241>>,
    <<7248, 7257>>, <<42528, 42537>>, <<43216, 43225>>, <<43264, 43273>>,
    <<43472, 43481>>, <<43504, 43513>>, <<43600, 43609>>, <<44016, 44025>>,
    <<65296, 65305>>, <<66720, 66729>>, <<68912, 68921>>, <<69734, 69743>>,
    <<69872, 69881>>, <<69942, 69951>>, <<70096, 70105>>, <<70384, 70393>>,
    <<70736, 70745>>, <<70864, 70873>>, <<71248, 71257>>, <<71360, 71369>>,
    <<71472, 71481>>, <<71904, 71913>>, <<72016, 72025>>, <<72784, 72793>>,
    <<73040, 73049>>, <<73120, 73129>>, <<92768, 92777>>, <<92864, 92873>>,
    <<93008, 93017>>, <<120782, 120831>>, <<123200, 123209>>, <<123632, 123641>>,
    <<125264, 125273>>, <<130032, 130041>>
  }

\* The class \d of the patterns.
IsDigit(c) ==
  IF c < 128 THEN 48 <= c /\ c <= 57
  ELSE \E r \in DigitRuns : r[1] <= c /\ c <= r[2]

\* The decimal value of a digit.
DigitVal(c) ==
  IF c < 128 THEN c - 48
  ELSE LET r == CHOOSE r \in DigitRuns : r[1] <= c /\ c <= r[2]
       IN  (c - r[1]) % 10

\* The class \s of a str pattern: \t \n \v \f \r, \x1c-\x1f, space, \x85,
\* \xa0 and the Unicode separators.
Spaces ==
  (9..13) \cup (28..32) \cup {133, 160, 5760} \cup (8192..8202)
    \cup {8232, 8233, 8239, 8287, 12288}

IsSpace(c) == c \in Spaces

\* re.IGNORECASE on a str pattern, for the letters of the unit literals: an
\* upper-case ASCII letter matches its lower-case letter, and the long s
\* (U+017F) matches s.
Lower(c) ==
  IF 65 <= c /\ c <= 90 THEN c + 32
  ELSE IF c = 383 THEN 115
  ELSE c

\* ---------------------------------------------------------- normalization

\* str.replace(old, new) for one-character old and new.
Replace(t, old, new) == [i \in 1..Len(t) |-> IF t[i] = old THEN new ELSE t[i]]

\* The characters of the replacements.
UpperO == Ord("O")
LowerO == Ord("o")
LowerL == Ord("l")
UpperI == Ord("I")
Digit0 == Ord("0")
Digit1 == Ord("1")

NormalizeSwapped(t) ==
  Replace(Replace(Replace(Replace(t, LowerO, Digit0), UpperO, LowerO),
                  LowerL, Digit1), UpperI, Digit1)

\* text.replace('O','0').replace('o','0').replace('l','1').replace('I','1')
Normalize(t) ==
  Replace(Replace(Replace(Replace(t, UpperO, Digit0), LowerO, Digit0),
                  LowerL, Digit1), UpperI, Digit1)

\* ---------------------------------------------------------------- patterns

\* The unit literal that ends each of the five unit patterns.
UnitMph == Text(<<"m", "p", "h">>)
UnitFt == Text(<<"f", "t">>)
UnitDeg == Text(<<"°">>)
UnitRpm == Text(<<"r", "p", "m">>)
UnitPerS == Text(<<"/", "s">>)

\* The characters - and . of the patterns.
Minus == Ord("-")
Point == Ord(".")

\* A pattern is [signed, unit]: signed tells whether the group starts with
\* -?, unit is the literal after \s* (empty for the generic pattern).
Pat(signed, unit) == [signed |-> signed, unit |-> unit]

\* The list `patterns`, in its order.
patterns ==
  << Pat(FALSE, UnitMph), Pat(FALSE, UnitFt), Pat(FALSE, UnitDeg),
     Pat(FALSE, UnitRpm), Pat(FALSE, UnitPerS), Pat(TRUE, <<>>) >>

\* Greedy x*: the first index >= i whose character is not in the class.
SkipDigits(t, i) ==
  IF \A j \in i..Len(t) : IsDigit(t[j]) THEN (IF i > Len(t) THEN i ELSE Len(t) + 1)
  ELSE CHOOSE k \in i..Len(t) :
         ~IsDigit(t[k]) /\ \A j \in i..(k - 1) : IsDigit(t[j])

SkipSpaces(t, i) ==
  IF \A j \in i..Len(t) : IsSpace(t[j]) THEN (IF i > Len(t) THEN i ELSE Len(t) + 1)
  ELSE CHOOSE k \in i..Len(t) :
         ~IsSpace(t[k]) /\ \A j \in i..(k - 1) : IsSpace(t[j])

\* The literal lit matches t at index i, ignoring case.
LiteralAt(t, i, lit) ==
  /\ i + Len(lit) - 1 <= Len(t)
  /\ \A k \in 1..Len(lit) : Lower(t[i + k - 1]) = Lower(lit[k])

\* One match attempt of pattern p anchored at index s. The quantifiers are
\* greedy; a shorter choice never lets the rest match, because the rest
\* starts with a character outside the class just consumed.
\* Result: [ok, from, to, end]: the group is t[from..to-1], the whole match
\* ends before index end.
MatchAt(p, t, s) ==
  LET d0 == IF p.signed /\ s <= Len(t) /\ t[s] = Minus THEN s + 1 ELSE s
      d1 == SkipDigits(t, d0)
      d2 == IF d1 <= Len(t) /\ t[d1] = Point THEN d1 + 1 ELSE d1
      d3 == SkipDigits(t, d2)
      d4 == IF p.unit = <<>> THEN d3 ELSE SkipSpaces(t, d3)
  IN  IF d1 > d0 /\ LiteralAt(t, d4, p.unit)
        THEN [ok |-> TRUE, from |-> s, to |-> d3, end |-> d4 + Len(p.unit)]
        ELSE [ok |-> FALSE, from |-> s, to |-> s, end |-> s]

\* re.findall(pattern, text, re.IGNORECASE): the groups of the leftmost
\* non-overlapping matches, scanning from index s: the match at the first
\* index at or after s that has one, then the matches after its end. starts
\* holds the indices of t at which an attempt matches.
RECURSIVE FindAllFrom(_, _, _, _)
FindAllFrom(p, t, s, starts) ==
  LET later == {j \in starts : j >= s}
  IN  IF later = {} THEN <<>>
      ELSE LET j == CHOOSE j \in later : \A k \in later : j <= k
               m == MatchAt(p, t, j)
           IN  <<[from |-> m.from, group |-> SubSeq(t, m.from, m.to - 1)]>>
                 \o FindAllFrom(p, t, m.end, starts)

FindAll(p, t) ==
  FindAllFrom(p, t, 1, {j \in 1..Len(t) : MatchAt(p, t, j).ok})

\* ------------------------------------------------------------------- float

\* A float is the binary64 value float() and / produce:
\* [neg, bits, exp] is (-1)^neg * 1.b2b3... * 2^exp, bits the significand
\* from its leading 1 to its last 1; 0.0 has no bits and exp 0, inf has no
\* bits and exp MaxExp + 1. Two records are equal exactly when the doubles
\* are the same double (0.0 and -0.0 being two).

\* The bits of the significand, the largest and the smallest exponent of a
\* normal double.
Precision == 53
MaxExp == 1023
MinExp == -1022

\* A natural number of any size is the sequence of its base-10000 limbs,
\* the lowest first, the highest not 0; 0 is the empty sequence.
LimbBase == 10000

\* A sequence without its trailing zeros.
StripTrailing(ds) ==
  IF \A i \in 1..Len(ds) : ds[i] = 0 THEN <<>>
  ELSE SubSeq(ds, 1, CHOOSE i \in 1..Len(ds) :
                       ds[i] # 0 /\ \A j \in (i + 1)..Len(ds) : ds[j] = 0)

\* A sequence without its leading zeros.
StripLeading(ds) ==
  IF \A i \in 1..Len(ds) : ds[i] = 0 THEN <<>>
  ELSE SubSeq(ds, CHOOSE i \in 1..Len(ds) :
                    ds[i] # 0 /\ \A j \in 1..(i - 1) : ds[j] = 0,
              Len(ds))

\* The natural number below LimbBase that up to four decimal digits write.
RECURSIVE LimbOf(_)
LimbOf(ds) ==
  IF ds = <<>> THEN 0 ELSE 10 * LimbOf(SubSeq(ds, 1, Len(ds) - 1)) + ds[Len(ds)]

\* The natural number a string of decimal digits writes.
NatOfDigits(digits) ==
  LET ds == StripLeading(digits)
      n == Len(ds)
      limbs == (n + 3) \div 4
  IN  StripTrailing(
        [k \in 1..limbs |->
           LimbOf(SubSeq(ds, IF n - 4 * k + 1 < 1 THEN 1 ELSE n - 4 * k + 1,
                         n - 4 * (k - 1)))])

\* The natural number of a TLA+ integer.
RECURSIVE NatOfInt(_)
NatOfInt(n) ==
  IF n = 0 THEN <<>> ELSE <<n % LimbBase>> \o NatOfInt(n \div LimbBase)

\* 10^k
RECURSIVE SmallPow10(_)
SmallPow10(k) == IF k = 0 THEN 1 ELSE 10 * SmallPow10(k - 1)

NatPow10(k) == [i \in 1..(k \div 4) |-> 0] \o <<SmallPow10(k % 4)>>

\* 2 * x: the carry into a limb is 1 when the limb below is LimbBase / 2
\* or more.
NatDouble(x) ==
  StripTrailing(
    [i \in 1..(Len(x) + 1) |->
       ((IF i <= Len(x) THEN 2 * x[i] ELSE 0)
          + (IF i > 1 /\ 2 * x[i - 1] >= LimbBase THEN 1 ELSE 0)) % LimbBase])

\* x < y
NatLess(x, y) ==
  IF Len(x) # Len(y) THEN Len(x) < Len(y)
  ELSE IF x = y THEN FALSE
  ELSE LET i == CHOOSE i \in 1..Len(x) :
                  x[i] # y[i] /\ \A j \in (i + 1)..Len(x) : x[j] = y[j]
       IN  x[i] < y[i]

\* x - y for y <= x: a limb borrows from the limb above when the limbs of x
\* below it write less than those of y.
NatMinus(x, y) ==
  LET sub(i) == IF i <= Len(y) THEN y[i] ELSE 0
      borrow(i) ==
        IF \A j \in 1..(i - 1) : x[j] = sub(j) THEN 0
        ELSE LET j == CHOOSE j \in 1..(i - 1) :
                        x[j] # sub(j) /\ \A k \in (j + 1)..(i - 1) : x[k] = sub(k)
             IN  IF x[j] < sub(j) THEN 1 ELSE 0
  IN  StripTrailing([i \in 1..Len(x) |->
                       (x[i] - sub(i) - borrow(i) + LimbBase) % LimbBase])

\* The doublings that surely fit in one limb: 2^LimbBits < LimbBase.
LimbBits == 13

\* 2^k * x, by halves of k.
RECURSIVE NatTimesPow2(_, _)
NatTimesPow2(x, k) ==
  IF k = 0 THEN x
  ELSE IF k = 1 THEN NatDouble(x)
  ELSE LET half == NatTimesPow2(x, k \div 2)
       IN  IF half = <<>> THEN <<>> ELSE NatTimesPow2(half, k - k \div 2)

\* num / den scaled into [1, 2): <<r, d, e>> with d <= r < 2 * d and
\* num / den = (r / d) * 2^e. While one is limbs shorter than the other it
\* is scaled by LimbBits doublings a limb, which cannot overshoot, and then
\* by single doublings.
RECURSIVE Normalized(_, _, _)
Normalized(r, d, e) ==
  IF Len(d) - Len(r) > 1
    THEN LET k == LimbBits * (Len(d) - Len(r) - 1)
         IN  Normalized(NatTimesPow2(r, k), d, e - k)
  ELSE IF Len(r) - Len(d) > 1
    THEN LET k == LimbBits * (Len(r) - Len(d) - 1)
         IN  Normalized(r, NatTimesPow2(d, k), e + k)
  ELSE IF NatLess(r, d) THEN Normalized(NatDouble(r), d, e - 1)
  ELSE IF ~NatLess(r, NatDouble(d)) THEN Normalized(r, NatDouble(d), e + 1)
  ELSE <<r, d, e>>

\* The next n bits of r / d for r < 2 * d, and what is left:
\* r / d = 0.b1...bn (binary, b1 of weight 1) + (rem / d) / 2^n. The bits
\* end early when nothing is left. The first half of the bits, then the
\* others from what the first left.
RECURSIVE Quotient(_, _, _)
Quotient(r, d, n) ==
  IF n = 0 \/ r = <<>> THEN [bits |-> <<>>, rem |-> r]
  ELSE IF n = 1
    THEN IF NatLess(r, d) THEN [bits |-> <<0>>, rem |-> NatDouble(r)]
         ELSE [bits |-> <<1>>, rem |-> NatDouble(NatMinus(r, d))]
  ELSE LET first == Quotient(r, d, n \div 2)
           others == Quotient(first.rem, d, n - n \div 2)
       IN  [bits |-> first.bits \o others.bits, rem |-> others.rem]

\* A significand of n bits plus one unit in its last place; carry when it
\* was all ones.
Increment(bits, n) ==
  LET padded == [i \in 1..n |-> IF i <= Len(bits) THEN bits[i] ELSE 0]
  IN  IF \A i \in 1..n : padded[i] = 1 THEN [bits |-> <<1>>, carry |-> 1]
      ELSE LET z == CHOOSE i \in 1..n :
                      padded[i] = 0 /\ \A j \in (i + 1)..n : padded[j] = 1
           IN  [bits |-> SubSeq(padded, 1, z - 1) \o <<1>>, carry |-> 0]

\* The double with this sign, significand and exponent, inf when the
\* exponent is beyond MaxExp.
Binary64(neg, bits, exp) ==
  IF StripTrailing(bits) = <<>> THEN [neg |-> neg, bits |-> <<>>, exp |-> 0]
  ELSE IF exp > MaxExp THEN [neg |-> neg, bits |-> <<>>, exp |-> MaxExp + 1]
  ELSE [neg |-> neg, bits |-> StripTrailing(bits), exp |-> exp]

\* The limbs by which num / den is surely beyond every double
\* (2^(LimbBits * HugeLimbs) > 2^(MaxExp + 1)) and surely below half the
\* smallest one (2^(-LimbBits * TinyLimbs) < 2^(MinExp - Precision)).
HugeLimbs == (MaxExp + 1) \div LimbBits + 1
TinyLimbs == (Precision - MinExp) \div LimbBits + 1

\* The double nearest to num / den, ties to the even significand: the
\* rounding of float() and of the division of two ints. A quotient of
\* more than HugeLimbs limbs is inf and one of fewer than -TinyLimbs is 0.0
\* without the division.
Rounded(neg, num, den) ==
  IF num = <<>> THEN Binary64(neg, <<>>, 0)
  ELSE IF Len(num) - 1 - Len(den) >= HugeLimbs
    THEN Binary64(neg, <<1>>, MaxExp + 1)
  ELSE IF Len(den) - 1 - Len(num) >= TinyLimbs THEN Binary64(neg, <<>>, 0)
  ELSE
    LET s == Normalized(num, den, 0)
        e == s[3]
        n == IF e >= MinExp THEN Precision ELSE Precision - (MinExp - e)
        q == Quotient(s[1], s[2], IF n < 0 THEN 0 ELSE n)
        up == IF n < 0 THEN FALSE
              ELSE /\ ~NatLess(q.rem, s[2])
                   /\ \/ q.rem # s[2]
                      \/ (n > 0 /\ Len(q.bits) = n /\ q.bits[n] = 1)
    IN  IF e > MaxExp THEN Binary64(neg, <<1>>, e)
        ELSE IF ~up THEN Binary64(neg, q.bits, e)
        ELSE IF n = 0 THEN Binary64(neg, <<1>>, e + 1)
        ELSE LET inc == Increment(q.bits, n)
             IN  Binary64(neg, inc.bits, e + inc.carry)

\* The digits of a group left of the point: g[i..j-1] as digit values.
IntPart(g, i, j) == [k \in 1..(j - i) |-> DigitVal(g[i + k - 1])]

\* The digits of a group right of the point: g[i..] as digit values.
FracPart(g, i) == [k \in 1..(Len(g) - i + 1) |-> DigitVal(g[i + k - 1])]

\* A group float() accepts: [-] digits [. digits].
Convertible(g) ==
  LET d0 == IF Len(g) >= 1 /\ g[1] = Minus THEN 2 ELSE 1
      d1 == SkipDigits(g, d0)
      d2 == IF d1 <= Len(g) /\ g[d1] = Point THEN d1 + 1 ELSE d1
      d3 == SkipDigits(g, d2)
  IN  d1 > d0 /\ d3 = Len(g) + 1

\* float(match) for a convertible group: the double nearest to the numeral
\* int.frac, that is to the natural number int frac over 10^Len(frac).
Float(g) ==
  LET d0 == IF g[1] = Minus THEN 2 ELSE 1
      d1 == SkipDigits(g, d0)
      d2 == IF d1 <= Len(g) /\ g[d1] = Point THEN d1 + 1 ELSE d1
      frac == StripTrailing(FracPart(g, d2))
  IN  Rounded(d0 = 2, NatOfDigits(IntPart(g, d0, d1) \o frac),
              NatPow10(Len(frac)))

\* a / b for a count a and a divisor b (4.0, or the 16 of len(fields)).
FloatDiv(a, b) == Rounded(FALSE, NatOfInt(a), NatOfInt(b))

\* 0.0 and 1.0
Zero == Binary64(FALSE, <<>>, 0)
One == Binary64(FALSE, <<1>>, 0)

IsZero(x) == x.bits = <<>> /\ x.exp = 0

\* Significands compared position by position, a missing bit counting as 0.
BitsLess(a, b) ==
  \E i \in 1..Len(b) :
    /\ b[i] = 1
    /\ (i > Len(a) \/ a[i] = 0)
    /\ \A j \in 1..(i - 1) : (IF j <= Len(a) THEN a[j] ELSE 0) = b[j]

\* |x| < |y|
MagLess(x, y) ==
  IF IsZero(x) \/ IsZero(y) THEN IsZero(x) /\ ~IsZero(y)
  ELSE IF x.exp # y.exp THEN x.exp < y.exp
  ELSE BitsLess(x.bits, y.bits)

\* x < y on floats.
FloatLess(x, y) ==
  IF IsZero(x) /\ IsZero(y) THEN FALSE
  ELSE IF x.neg # y.neg THEN x.neg
  ELSE IF x.neg THEN MagLess(y, x) ELSE MagLess(x, y)

\* for match in matches: try: numbers.append(float(match))
\*                       except ValueError: continue
AppendFloats(nums, matches) ==
  LET converts(m) == Convertible(m.group)
      converted == SelectSeq(matches, converts)
  IN  nums \o [i \in 1..Len(converted) |-> Float(converted[i].group)]

\* for pattern in patterns: ...
RECURSIVE ForPatterns(_, _, _)
ForPatterns(nums, t, k) ==
  IF k > Len(patterns) THEN nums
  ELSE ForPatterns(AppendFloats(nums, FindAll(patterns[k], t)), t, k + 1)

extract_numbers_from_text(t) == ForPatterns(<<>>, Normalize(t), 1)

\* ------------------------------------------------------------------ dicts

\* d[k] = v on a dict kept as its items in insertion order.
DictSet(d, k, v) ==
  IF \E j \in 1..Len(d) : d[j][1] = k
    THEN [j \in 1..Len(d) |-> IF d[j][1] = k THEN <<k, v>> ELSE d[j]]
    ELSE Append(d, <<k, v>>)

\* list(d.keys())
Keys(d) == [j \in 1..Len(d) |-> d[j][1]]

\* d[k] for a key of d.
Lookup(d, k) == d[CHOOSE j \in 1..Len(d) : d[j][1] = k][2]

\* ------------------------------------------------------------ field mapping

AtFirst(nums, i) == IF Len(nums) > i THEN Some(nums[1]) ELSE None

\* numbers[i] if len(numbers) > i else None   (i counts from 0)
At(nums, i) == IF Len(nums) > i THEN Some(nums[i + 1]) ELSE None

\* The dict literal of process_oled_display.
oled_result(nums) ==
  << <<"ball_speed", At(nums, 0)>>,
     <<"club_head_speed", At(nums, 1)>>,
     <<"carry_distance", At(nums, 2)>>,
     <<"total_distance", At(nums, 3)>> >>

\* The divisor of the OLED confidence, len(numbers) / 4.0.
OledDivisor == 4

\* len(numbers) / 4.0
oled_confidence(nums) == FloatDiv(Len(nums), OledDivisor)

\* The list `fields` of process_ipad_display.
fields ==
  << "ball_speed", "club_head_speed", "smash_factor", "carry_distance",
     "total_distance", "launch_angle", "spin_rate", "side_spin",
     "angle_of_attack", "club_path", "face_angle", "dynamic_loft",
     "impact_height", "impact_toe", "ball_height", "descent_angle" >>

RECURSIVE ipad_result_skipping(_, _, _)
ipad_result_skipping(result, nums, i) ==
  IF i >= Len(fields) THEN result
  ELSE ipad_result_skipping(
         IF Len(nums) > i THEN DictSet(result, fields[i + 1], At(nums, i))
                          ELSE result,
         nums, i + 1)

\* for i, field in enumerate(fields):
\*     result[field] = numbers[i] if len(numbers) > i else None
RECURSIVE ipad_result(_, _, _)
ipad_result(result, nums, i) ==
  IF i >= Len(fields) THEN result
  ELSE ipad_result(DictSet(result, fields[i + 1], At(nums, i)), nums, i + 1)

FloatMax(a, b) == IF FloatLess(a, b) THEN b ELSE a

\* min(a, b) of Python: b when b < a, else a.
FloatMin(a, b) == IF FloatLess(b, a) THEN b ELSE a

ipad_confidence_max(nums) == FloatMax(One, FloatDiv(Len(nums), Len(fields)))

\* min(1.0, len(numbers) / len(fields))
ipad_confidence(nums) == FloatMin(One, FloatDiv(Len(nums), Len(fields)))

\* ------------------------------------------------------------ the Shot model

\* The float columns of Shot.
ShotFields ==
  { "ball_speed", "club_head_speed", "carry_distance", "total_distance",
    "smash_factor", "launch_angle", "spin_rate", "side_spin",
    "angle_of_attack", "club_path", "face_angle", "dynamic_loft",
    "impact_height", "impact_toe", "ball_height", "descent_angle",
    "apex_height", "hang_time", "offline" }

\* The attributes hasattr(shot, field) finds.
ShotAttrs ==
  ShotFields \cup {"id", "session", "timestamp", "image", "processed",
                   "processing_errors", "confidence_score"}

\* Shot.objects.create(session=session, image=image_file): every column at
\* its default.
NewShot(id, sid, image) ==
  [ id |-> id, session |-> sid, image |-> image,
    metrics |-> [f \in ShotFields |-> None],
    processed |-> FALSE, processing_errors |-> "", confidence_score |-> None ]

\* for field, value in data.items():
\*     if value is not None and hasattr(shot, field): setattr(shot, field, value)
RECURSIVE SetAttrs(_, _, _)
SetAttrs(sh, data, j) ==
  IF j > Len(data) THEN sh
  ELSE LET field == data[j][1]
           value == data[j][2]
       IN  IF ~IsNone(value) /\ field \in ShotAttrs
             THEN SetAttrs([sh EXCEPT !.metrics[field] = value], data, j + 1)
             ELSE SetAttrs(sh, data, j + 1)

\* ------------------------------------------------------------ external calls

\* cv2.imread(path): None for a file that is no decodable image.
imread(image) == IF image = "photo" THEN Some("bgr") ELSE None

ErrCvtColor == "cv2.error: (-215:Assertion failed) !_src.empty() in function 'cvtColor'"

cvtColorLenient(img) == [ok |-> TRUE, value |-> "gray", error |-> ""]

\* cv2.cvtColor(img, cv2.COLOR_BGR2GRAY): raises on an empty source.
cvtColor(img) ==
  IF IsNone(img) THEN [ok |-> FALSE, value |-> "", error |-> ErrCvtColor]
                 ELSE [ok |-> TRUE, value |-> "gray", error |-> ""]

\* What pytesseract.image_to_string raises when the engine fails.
OcrErrors == {"TesseractNotFoundError: tesseract is not installed",
              "TesseractError: (1, 'Error opening data')"}

\* What a statement of the ORM raises when the database fails.
ErrDatabase == "database is locked"

\* What Session.objects.get(id=...) raises for an id that is no number.
ErrNotANumber == "ValueError: Field 'id' expected a number"

\* The whitespace int() strips from the ends of its argument: the
\* whitespace of \s but for the separators \x1c-\x1f.
IntSpaces == Spaces \ (28..31)

\* The text without the leading and trailing whitespace int() ignores.
Strip(t) ==
  IF \A i \in 1..Len(t) : t[i] \in IntSpaces THEN <<>>
  ELSE SubSeq(t,
              CHOOSE i \in 1..Len(t) :
                t[i] \notin IntSpaces
                  /\ \A j \in 1..(i - 1) : t[j] \in IntSpaces,
              CHOOSE i \in 1..Len(t) :
                t[i] \notin IntSpaces
                  /\ \A j \in (i + 1)..Len(t) : t[j] \in IntSpaces)

Underscore == 95
Plus == Ord("+")

\* sys.get_int_max_str_digits(): int() raises ValueError for a string of
\* more digits.
MaxStrDigits == 4300

\* The digit values of the digits of a text, in order.
DigitsOf(t) ==
  LET ds == SelectSeq(t, IsDigit) IN [i \in 1..Len(ds) |-> DigitVal(ds[i])]

\* int(session_id), which the id lookup applies to the posted string:
\* whitespace stripped, an optional sign, then decimal digits, single
\* underscores allowed between digits, at most MaxStrDigits digits.
\* [ok, neg, digits]; not ok is the ValueError.
IntOf(t) ==
  LET s == Strip(t)
      signed == s # <<>> /\ s[1] \in {Minus, Plus}
      body == IF signed THEN Tail(s) ELSE s
      ok == /\ body # <<>>
            /\ IsDigit(body[1]) /\ IsDigit(body[Len(body)])
            /\ \A i \in 1..Len(body) :
                 IsDigit(body[i])
                   \/ (body[i] = Underscore /\ IsDigit(body[i - 1]))
            /\ Len(SelectSeq(body, IsDigit)) <= MaxStrDigits
  IN  [ ok |-> ok,
        neg |-> ok /\ signed /\ s[1] = Minus,
        digits |-> IF ok THEN StripLeading(DigitsOf(body)) ELSE <<>> ]

\* The decimal digits of a natural number.
RECURSIVE IntDigits(_)
IntDigits(n) == IF n = 0 THEN <<>> ELSE Append(IntDigits(n \div 10), n % 10)

\* The stored session id that the posted string names, if any.
SessionsWithId(rows, t) ==
  LET n == IntOf(t)
  IN  {id \in rows : IntDigits(id) = n.digits /\ (~n.neg \/ n.digits = <<>>)}

\* What a statement raises that leaves a Shot row pointing at a Session row
\* that is no longer stored.
ErrIntegrity == "FOREIGN KEY constraint failed"

\* ------------------------------------------------------------------- inputs

\* The characters the explored texts are built of: two digits, the point,
\* the signs, a blank, a unit, a letter read for 0 and a letter read for 1.
Chars == {Ord("1"), Ord("2"), Ord("."), Ord("-"), Plus, Ord(" "),
          Ord("°"), Ord("O"), Ord("l")}

\* Every text of k of these characters.
TextsOfLen(k) == [1..k -> Chars]

\* "d1 d2 ... dn ", the i-th number being the digit i mod 10, negated when
\* i is even.
RECURSIVE LongText(_)
LongText(n) ==
  IF n = 0 THEN <<>>
  ELSE LongText(n - 1)
         \o (IF n % 2 = 0 THEN <<Minus>> ELSE <<>>)
         \o <<Digit0 + (n % 10), Ord(" ")>>

LongTexts == {LongText(n) : n \in 0..MaxNumbers}

\* "85.3 mph 112.mph"
ScenarioUnits ==
  Text(<<"8", "5", ".", "3", " ", "m", "p", "h", " ",
         "1", "1", "2", ".", "m", "p", "h">>)

\* "1.2.3"
ScenarioTwoPoints == Text(<<"1", ".", "2", ".", "3">>)

\* "4/s 3RPM 2° 1FT 5mph"
ScenarioCase ==
  Text(<< "4", "/", "s", " ", "3", "R", "P", "M", " ", "2", "°", " ",
          "1", "F", "T", " ", "5", "m", "p", "h" >>)

\* "OolI"
ScenarioConfused == Text(<<"O", "o", "l", "I">>)

\* "1\r\nmph 2\x0c/ſ ٣.٥ft 1234567890.123456": a carriage return and a form
\* feed before a unit, the long s, Arabic-Indic digits, a long numeral.
ScenarioUnicode ==
  <<49, 13, 10>> \o UnitMph \o <<32, 50, 12, 47, 383, 32, 1635, 46, 1637>>
    \o UnitFt \o <<32>>
    \o Text(<<"1", "2", "3", "4", "5", "6", "7", "8", "9", "0", ".",
              "1", "2", "3", "4", "5", "6">>)

ScenarioTexts ==
  {ScenarioUnits, ScenarioTwoPoints, ScenarioCase, ScenarioConfused,
   ScenarioUnicode}

\* The texts the engine reads while the pipeline alone is explored.
PipelineTexts ==
  UNION {TextsOfLen(k) : k \in 0..MaxViewLen} \cup LongTexts \cup ScenarioTexts

\* The texts the engine reads while the whole view and the other writers
\* are explored: an empty one, one of 4 numbers and one of MaxNumbers.
ViewTexts == {<<>>, ScenarioUnits, LongText(MaxNumbers)}

\* A session_id of one digit more than int() converts.
TooManyDigits == [i \in 1..(MaxStrDigits + 1) |-> Digit1]

\* The requests: the uploaded file (none, a photograph, a file that is no
\* image), the posted session_id (absent, empty, "1", "2", "abc", too many
\* digits), the posted display_type (absent, 'oled', 'ipad').
Requests ==
  [ image : {None, Some("photo"), Some("garbage")},
    session_id : {None, Some(<<>>), Some(Text(<<"1">>)), Some(Text(<<"2">>)),
                  Some(Text(<<"a", "b", "c">>)), Some(TooManyDigits)},
    display_type : {None, Some("oled"), Some("ipad")} ]

\* request.data.get('display_type', 'oled')
display_type(req) ==
  IF IsNone(req.display_type) THEN "oled" ELSE Get(req.display_type)

\* -------------------------------------------------------------------- state

VARIABLES
  pc,          \* where the request is in process_image and the pipeline
  request,     \* the request being served
  sessions,    \* ids of the stored Session rows
  last_session_id, \* the last id the Session table handed out
  session,     \* the view's local `session`
  shot,        \* the view's Shot instance
  shots,       \* the stored Shot rows
  last_shot_id, \* the last id the Shot table handed out
  writes,      \* the writes of other clients since the request arrived
  calls,       \* the pipeline stages invoked, in order
  text,        \* the local `text` of process_*_display
  numbers,     \* the local `numbers`
  ret,         \* the tuple process_*_display returned
  raised,      \* the exception caught by the inner except
  response     \* the Response returned

vars == <<pc, request, sessions, last_session_id, session, shot, shots,
          last_shot_id, writes, calls, text, numbers, ret, raised, response>>

\* A request arrives at a database without rows.
Init ==
  /\ pc = "request"
  /\ request \in Requests
  /\ sessions = {}
  /\ last_session_id = 0
  /\ session = None
  /\ shot = None
  /\ shots = {}
  /\ last_shot_id = 0
  /\ writes = 0
  /\ calls = <<>>
  /\ text = None
  /\ numbers = None
  /\ ret = None
  /\ raised = None
  /\ response = None

NoBody ==
  [ error |-> None, shot_id |-> None, session_id |-> None, data |-> None,
    confidence |-> None, raw_text |-> None ]

\* The outer except of process_image: Response({'error': str(e)}, 500).
OuterError(msg) == Some([NoBody EXCEPT !.error = Some(<<msg>>)] @@ [status |-> 500])

\* process_image up to the session lookup: the missing-image answer and
\* Session.objects.get(id=session_id).
ProcessImageBegin ==
  /\ pc = "request"
  /\ \E fails \in BOOLEAN :
       IF IsNone(request.image)
         THEN /\ ~fails
              /\ response' = Some([NoBody EXCEPT
                                     !.error = Some(<<"No image provided">>)]
                                   @@ [status |-> 400])
              /\ pc' = "responded"
              /\ UNCHANGED session
       ELSE IF IsNone(request.session_id) \/ Get(request.session_id) = <<>>
         THEN /\ ~fails
              /\ pc' = "session_looked_up"
              /\ UNCHANGED <<session, response>>
       ELSE IF ~IntOf(Get(request.session_id)).ok
         THEN /\ ~fails
              /\ response' = OuterError(ErrNotANumber)
              /\ pc' = "responded"
              /\ UNCHANGED session
       ELSE IF fails
         THEN /\ response' = OuterError(ErrDatabase)
              /\ pc' = "responded"
              /\ UNCHANGED session
       ELSE LET found == SessionsWithId(sessions, Get(request.session_id))
            IN  /\ session' = IF found = {} THEN None
                              ELSE Some(CHOOSE id \in found : TRUE)
                /\ pc' = "session_looked_up"
                /\ UNCHANGED response
  /\ UNCHANGED <<request, sessions, last_session_id, shot, shots,
                 last_shot_id, writes, calls, text, numbers, ret, raised>>

\* if not session: session = Session.objects.create(...)
EnsureSession ==
  /\ pc = "session_looked_up"
  /\ \E fails \in BOOLEAN :
       IF ~IsNone(session)
         THEN /\ ~fails
              /\ pc' = "session_ready"
              /\ UNCHANGED <<sessions, last_session_id, session, response>>
       ELSE IF fails
         THEN /\ response' = OuterError(ErrDatabase)
              /\ pc' = "responded"
              /\ UNCHANGED <<sessions, last_session_id, session>>
       ELSE /\ sessions' = sessions \cup {last_session_id + 1}
            /\ last_session_id' = last_session_id + 1
            /\ session' = Some(last_session_id + 1)
            /\ pc' = "session_ready"
            /\ UNCHANGED response
  /\ UNCHANGED <<request, shot, shots, last_shot_id, writes, calls, text,
                 numbers, ret, raised>>

\* What a statement that writes the Shot row of the view raises, if it
\* raises: the database failure when there is one, else the foreign key
\* check when the Session row of the local `session` has been deleted.
WriteError(rows, sess, fails) ==
  IF fails THEN Some(ErrDatabase)
  ELSE IF Get(sess) \notin rows THEN Some(ErrIntegrity)
  ELSE None

\* The Shot table with this row stored: in place of the row of its id when
\* there is one, added otherwise.
Stored(rows, row) == {r \in rows : r.id # row.id} \cup {row}

\* shot = Shot.objects.create(session=session, image=image_file): the row
\* gets the next id of the table.
CreateShot ==
  /\ pc = "session_ready"
  /\ \E fails \in BOOLEAN :
       LET err == WriteError(sessions, session, fails)
           row == NewShot(last_shot_id + 1, Get(session), Get(request.image))
       IN  IF ~IsNone(err)
             THEN /\ response' = OuterError(Get(err))
                  /\ pc' = "responded"
                  /\ UNCHANGED <<shot, shots, last_shot_id>>
             ELSE /\ shot' = Some(row)
                  /\ shots' = Stored(shots, row)
                  /\ last_shot_id' = last_shot_id + 1
                  /\ pc' = "shot_created"
                  /\ UNCHANGED response
  /\ UNCHANGED <<request, sessions, last_session_id, session, writes, calls,
                 text, numbers, ret, raised>>

\* preprocess_image, called first by process_oled_display and
\* process_ipad_display.
PreprocessImage ==
  /\ pc = "shot_created"
  /\ calls' = Append(calls, "preprocess_image")
  /\ LET gray == cvtColor(imread(Get(shot).image))
     IN  IF gray.ok
           THEN pc' = "preprocessed" /\ UNCHANGED raised
           ELSE pc' = "raised" /\ raised' = Some(gray.error)
  /\ UNCHANGED <<request, sessions, last_session_id, session, shot, shots,
                 last_shot_id, writes, text, numbers,
                 ret, response>>

\* text = pytesseract.image_to_string(processed_img, config=self.config),
\* the engine reading one of these texts.
ImageToString(texts) ==
  /\ pc = "preprocessed"
  /\ calls' = Append(calls, "image_to_string")
  /\ \E fails \in BOOLEAN :
       IF fails
         THEN /\ \E e \in OcrErrors : raised' = Some(e)
              /\ pc' = "raised"
              /\ UNCHANGED text
         ELSE /\ \E t \in texts : text' = Some(t)
              /\ pc' = "recognized"
              /\ UNCHANGED raised
  /\ UNCHANGED <<request, sessions, last_session_id, session, shot, shots,
                 last_shot_id, writes, numbers, ret,
                 response>>

\* numbers = self.extract_numbers_from_text(text)
ExtractNumbers ==
  /\ pc = "recognized"
  /\ calls' = Append(calls, "extract_numbers_from_text")
  /\ numbers' = Some(extract_numbers_from_text(Get(text)))
  /\ pc' = "extracted"
  /\ UNCHANGED <<request, sessions, last_session_id, session, shot, shots,
                 last_shot_id, writes, text, ret, raised,
                 response>>

\* The mapping and the return of process_oled_display.
ProcessOledDisplay ==
  /\ pc = "extracted"
  /\ display_type(request) = "oled"
  /\ ret' = Some([ data |-> oled_result(Get(numbers)),
                   raw_text |-> Get(text),
                   confidence |-> oled_confidence(Get(numbers)) ])
  /\ pc' = "returned"
  /\ UNCHANGED <<request, sessions, last_session_id, session, shot, shots,
                 last_shot_id, writes, calls, text,
                 numbers, raised, response>>

\* The mapping and the return of process_ipad_display.
ProcessIpadDisplay ==
  /\ pc = "extracted"
  /\ display_type(request) # "oled"
  /\ ret' = Some([ data |-> ipad_result(<<>>, Get(numbers), 0),
                   raw_text |-> Get(text),
                   confidence |-> ipad_confidence(Get(numbers)) ])
  /\ pc' = "returned"
  /\ UNCHANGED <<request, sessions, last_session_id, session, shot, shots,
                 last_shot_id, writes, calls, text,
                 numbers, raised, response>>

\* The Shot instance after the try body's assignments (lines 46-51).
ShotAfterSuccess(sh, r) ==
  [SetAttrs(sh, r.data, 1) EXCEPT !.processed = TRUE,
                                  !.confidence_score = Some(r.confidence)]

\* The try body of process_image after the pipeline returned: the
\* assignments, shot.save(), the Response. A failing save raises into the
\* inner except with the instance already changed. save() writes every
\* column of the instance, and inserts the row when it is no longer stored.
ProcessImageSuccess ==
  /\ pc = "returned"
  /\ LET r == Get(ret)
         updated == ShotAfterSuccess(Get(shot), r)
     IN  /\ shot' = Some(updated)
         /\ \E fails \in BOOLEAN :
              LET err == WriteError(sessions, session, fails)
              IN  IF ~IsNone(err)
                    THEN /\ raised' = err
                         /\ pc' = "raised"
                         /\ UNCHANGED <<shots, response>>
                    ELSE /\ shots' = Stored(shots, updated)
                         /\ response' =
                              Some([NoBody EXCEPT
                                      !.shot_id = Some(updated.id),
                                      !.session_id = session,
                                      !.data = Some(r.data),
                                      !.confidence = Some(r.confidence),
                                      !.raw_text = Some(r.raw_text)]
                                    @@ [status |-> 200])
                         /\ pc' = "responded"
                         /\ UNCHANGED raised
  /\ UNCHANGED <<request, sessions, last_session_id, session, last_shot_id,
                 writes, calls, text, numbers, ret>>

\* shot.processing_errors = str(e)
ShotAfterFailure(sh, msg) == [sh EXCEPT !.processing_errors = msg]

\* The inner except of process_image: processing_errors, shot.save(), the
\* error Response. A failing save raises into the outer except.
ProcessImageFailure ==
  /\ pc = "raised"
  /\ LET updated == ShotAfterFailure(Get(shot), Get(raised))
     IN  /\ shot' = Some(updated)
         /\ \E fails \in BOOLEAN :
              LET err == WriteError(sessions, session, fails)
              IN  IF ~IsNone(err)
                    THEN /\ response' = OuterError(Get(err))
                         /\ UNCHANGED shots
                    ELSE /\ shots' = Stored(shots, updated)
                         /\ response' =
                              Some([NoBody EXCEPT
                                      !.error = Some(<<"Processing failed: ",
                                                       Get(raised)>>),
                                      !.shot_id = Some(updated.id)]
                                    @@ [status |-> 500])
  /\ pc' = "responded"
  /\ UNCHANGED <<request, sessions, last_session_id, session, last_shot_id,
                 writes, calls, text, numbers, ret, raised>>

\* The writes of other clients are followed until process_image has
\* answered, up to MaxWrites of them: process_image holds no lock and no
\* transaction, so they fall between any two of its statements.
Serving == pc # "responded" /\ writes < MaxWrites

\* views.sessions, POST, by another client: a valid serializer saves a new
\* Session row, an invalid one answers 400 and stores nothing. (GET and
\* session_shots only read.) The add view of SessionAdmin and line 31 of
\* another process_image request store a Session row in the same way.
SessionsPost ==
  /\ Serving
  /\ \E valid \in BOOLEAN :
       IF valid
         THEN /\ sessions' = sessions \cup {last_session_id + 1}
              /\ last_session_id' = last_session_id + 1
              /\ writes' = writes + 1
         ELSE UNCHANGED <<sessions, last_session_id, writes>>
  /\ UNCHANGED <<pc, request, session, shot, shots, last_shot_id, calls,
                 text, numbers, ret, raised, response>>

\* Line 34 of process_image serving another client, or the add view of
\* ShotAdmin: a Shot row of a stored session with the next id. What that
\* request saves in its row later is among what AdminChangeShot stores in it.
OtherCreateShot ==
  /\ Serving
  /\ \E s \in sessions :
       shots' = Stored(shots, NewShot(last_shot_id + 1, s, "photo"))
  /\ last_shot_id' = last_shot_id + 1
  /\ writes' = writes + 1
  /\ UNCHANGED <<pc, request, sessions, last_session_id, session, shot,
                 calls, text, numbers, ret, raised, response>>

\* SessionAdmin, delete view: the Session row goes, and by
\* on_delete=CASCADE every Shot row of it.
AdminDeleteSession ==
  /\ Serving
  /\ \E id \in sessions :
       /\ sessions' = sessions \ {id}
       /\ shots' = {r \in shots : r.session # id}
  /\ writes' = writes + 1
  /\ UNCHANGED <<pc, request, last_session_id, session, shot, last_shot_id,
                 calls, text, numbers, ret, raised, response>>

\* ShotAdmin, delete view.
AdminDeleteShot ==
  /\ Serving
  /\ \E r \in shots : shots' = shots \ {r}
  /\ writes' = writes + 1
  /\ UNCHANGED <<pc, request, sessions, last_session_id, session, shot,
                 last_shot_id, calls, text, numbers, ret, raised, response>>

\* The forms a staff user posts from the change view of ShotAdmin, every
\* editable column of the fieldsets but session: a shot marked as reviewed
\* with a speed typed in, and a shot cleared.
AdminForms ==
  { [ processed |-> TRUE, confidence_score |-> Some(One),
      processing_errors |-> "reviewed by hand",
      metrics |-> [f \in ShotFields |->
                     IF f = "ball_speed" THEN Some(One) ELSE None] ],
    [ processed |-> FALSE, confidence_score |-> None,
      processing_errors |-> "",
      metrics |-> [f \in ShotFields |-> None] ] }

\* ShotAdmin, change view: the posted form replaces the editable columns of
\* the row, session, processed, confidence_score, processing_errors and the
\* metrics; timestamp and image are read-only.
AdminChangeShot ==
  /\ Serving
  /\ \E r \in shots, form \in AdminForms, s \in sessions :
       shots' = Stored(shots, [r EXCEPT
                                 !.session = s,
                                 !.processed = form.processed,
                                 !.confidence_score = form.confidence_score,
                                 !.processing_errors = form.processing_errors,
                                 !.metrics = form.metrics])
  /\ writes' = writes + 1
  /\ UNCHANGED <<pc, request, sessions, last_session_id, session, shot,
                 last_shot_id, calls, text, numbers, ret, raised, response>>

Next ==
  \/ ProcessImageBegin
  \/ EnsureSession
  \/ CreateShot
  \/ PreprocessImage
  \/ ImageToString(ViewTexts)
  \/ ExtractNumbers
  \/ ProcessOledDisplay
  \/ ProcessIpadDisplay
  \/ ProcessImageSuccess
  \/ ProcessImageFailure
  \/ SessionsPost
  \/ OtherCreateShot
  \/ AdminDeleteSession
  \/ AdminDeleteShot
  \/ AdminChangeShot

Spec == Init /\ [][Next]_vars

\* The call of process_oled_display or process_ipad_display alone: the
\* states in which line 34 has just stored the Shot row, for every request
\* with a file, every text of at most MaxViewLen characters, the texts of up
\* to MaxNumbers numbers and the scenario texts.
InitPipeline ==
  /\ pc = "shot_created"
  /\ request \in {r \in Requests :
                    ~IsNone(r.image) /\ r.session_id = Some(Text(<<"1">>))}
  /\ sessions = {1}
  /\ last_session_id = 1
  /\ session = Some(1)
  /\ shot = Some(NewShot(1, 1, Get(request.image)))
  /\ shots = {Get(shot)}
  /\ last_shot_id = 1
  /\ writes = 0
  /\ calls = <<>>
  /\ text = None
  /\ numbers = None
  /\ ret = None
  /\ raised = None
  /\ response = None

NextPipeline ==
  \/ PreprocessImage
  \/ ImageToString(PipelineTexts)
  \/ ExtractNumbers
  \/ ProcessOledDisplay
  \/ ProcessIpadDisplay

SpecPipeline == InitPipeline /\ [][NextPipeline]_vars

\* The extraction alone: the states in which image_to_string has just
\* returned a text, for every text of at most MaxLen characters and the
\* scenario texts.
InitExtract ==
  /\ pc = "recognized"
  /\ request \in {r \in Requests :
                    r.image = Some("photo") /\ r.session_id = Some(Text(<<"1">>))
                    /\ r.display_type = Some("oled")}
  /\ sessions = {1}
  /\ last_session_id = 1
  /\ session = Some(1)
  /\ shot = Some(NewShot(1, 1, "photo"))
  /\ shots = {Get(shot)}
  /\ last_shot_id = 1
  /\ writes = 0
  /\ calls = <<"preprocess_image", "image_to_string">>
  /\ \E k \in 0..MaxLen :
       \E t \in TextsOfLen(k) \cup ScenarioTexts : text = Some(t)
  /\ numbers = None
  /\ ret = None
  /\ raised = None
  /\ response = None

NextExtract == ExtractNumbers

SpecExtract == InitExtract /\ [][NextExtract]_vars

\* ------------------------------------------------------------------- claims

\* The OLED layout and the TABLET layout, in their declared order.
OledLayout ==
  <<"ball_speed", "club_head_speed", "carry_distance", "total_distance">>

TabletLayout ==
  << "ball_speed", "club_head_speed", "smash_factor", "carry_distance",
     "total_distance", "launch_angle", "spin_rate", "side_spin",
     "angle_of_attack", "club_path", "face_angle", "dynamic_loft",
     "impact_height", "impact_toe", "ball_height", "descent_angle" >>

LayoutOf(display) == IF display = "oled" THEN OledLayout ELSE TabletLayout

\* process_oled_display or process_ipad_display has returned its tuple.
Returned == ~IsNone(ret)

\* process_oled_display or process_ipad_display has raised.
PipelineRaised == ~IsNone(raised) /\ IsNone(ret)

AllPopulated(data) == \A j \in 1..Len(data) : ~IsNone(data[j][2])
AllNull(data) == \A j \in 1..Len(data) : IsNone(data[j][2])

Count(seq, x) == Cardinality({j \in 1..Len(seq) : seq[j] = x})

\* C1: for both layouts and a numeric sequence of any length, the returned
\* confidence lies in [0.0, 1.0].
C1_ConfidenceInUnitRange ==
  Returned => /\ ~FloatLess(Get(ret).confidence, Zero)
              /\ ~FloatLess(One, Get(ret).confidence)

\* C2: for both layouts, a numeric sequence with at least as many elements as
\* the layout has fields populates every field and gives confidence exactly 1.0.
C2_FullSequenceFullConfidence ==
  (Returned /\ Len(Get(numbers)) >= Len(LayoutOf(display_type(request))))
    => (AllPopulated(Get(ret).data) /\ Get(ret).confidence = One)

\* C3: the keys of the returned mapping are exactly the field names of the
\* requested layout, each once, in the layout's declared order (4 for OLED,
\* 16 for TABLET), whatever the length of the numeric sequence.
C3_KeysAreLayout ==
  Returned =>
    /\ Keys(Get(ret).data) = LayoutOf(display_type(request))
    /\ Len(Get(ret).data) = (IF display_type(request) = "oled" THEN 4 ELSE 16)
    /\ \A k \in {Get(ret).data[j][1] : j \in 1..Len(Get(ret).data)} :
         Count(Keys(Get(ret).data), k) = 1

\* C3 witness: a TABLET mapping returned for a sequence that leaves some
\* fields null.
C3_Witness ==
  /\ Returned
  /\ display_type(request) = "ipad"
  /\ Len(Get(numbers)) \in 1..15

\* C4: the i-th field of the layout holds the i-th number unchanged when the
\* sequence has one, null otherwise; numbers beyond the layout are ignored;
\* a TABLET sequence of exactly 16 numbers populates all 16 fields with
\* confidence 1.0.
C4_PositionalMapping ==
  Returned =>
    LET L == LayoutOf(display_type(request))
        ns == Get(numbers)
        data == Get(ret).data
    IN  /\ Len(data) = Len(L)
        /\ \A i \in 1..Len(L) :
             data[i] = <<L[i], IF i <= Len(ns) THEN Some(ns[i]) ELSE None>>
        /\ (display_type(request) = "ipad" /\ Len(ns) = 16)
             => (AllPopulated(data) /\ Get(ret).confidence = One)

\* C4 witness: a TABLET mapping returned for exactly 16 numbers that are not
\* all equal, some of them negative.
C4_Witness ==
  /\ Returned
  /\ display_type(request) = "ipad"
  /\ Len(Get(numbers)) = 16
  /\ Get(numbers)[1] # Get(numbers)[2]
  /\ Get(numbers)[2].neg

\* The matches of the five unit patterns in priority order, then those of the
\* generic pattern, on a normalized text.
UnitMatches(n) ==
  FindAll(Pat(FALSE, UnitMph), n) \o FindAll(Pat(FALSE, UnitFt), n)
    \o FindAll(Pat(FALSE, UnitDeg), n) \o FindAll(Pat(FALSE, UnitRpm), n)
    \o FindAll(Pat(FALSE, UnitPerS), n)

GenericMatches(n) == FindAll(Pat(TRUE, <<>>), n)

\* The matches of one pattern come in left-to-right text order.
InTextOrder(ms) == \A j \in 1..(Len(ms) - 1) : ms[j].from < ms[j + 1].from

\* 85.3, the double 0x1.5533333333333p+6, and 112.0, 0x1.cp+6.
F85_3 ==
  [neg |-> FALSE, bits |-> <<1, 0, 1, 0, 1, 0, 1, 0, 1, 0, 0, 1, 1, 0, 0, 1,
  1, 0, 0, 1, 1, 0, 0, 1, 1, 0, 0, 1, 1, 0, 0, 1, 1, 0, 0, 1, 1, 0, 0, 1, 1,
  0, 0, 1, 1, 0, 0, 1, 1, 0, 0, 1, 1>>, exp |-> 6]
F112 == [neg |-> FALSE, bits |-> <<1, 1, 1>>, exp |-> 6]

\* x = y on floats: 0.0 and -0.0 are equal.
FloatEq(x, y) == ~FloatLess(x, y) /\ ~FloatLess(y, x)

\* A match of a unit pattern and a match of the generic pattern are matches
\* of one printed number: their groups end at the same character, and the
\* generic group is the unit group or the unit group behind a minus.
SamePrintedNumber(u, g) ==
  /\ u.from + Len(u.group) = g.from + Len(g.group)
  /\ g.group \in {u.group, <<Minus>> \o u.group}

\* The extracted sequence is the unit-pattern matches in priority order
\* (mph, ft, degree, rpm, /s) followed by the generic matches, each pattern's
\* matches in text order, nothing removed.
ConcatenatedInPriorityOrder ==
  (pc = "extracted") =>
    LET n == Normalize(Get(text))
        U == UnitMatches(n)
        G == GenericMatches(n)
        ns == Get(numbers)
    IN  /\ Len(ns) = Len(U) + Len(G)
        /\ \A i \in 1..Len(U) : ns[i] = Float(U[i].group)
        /\ \A j \in 1..Len(G) : ns[Len(U) + j] = Float(G[j].group)
        /\ InTextOrder(G)
        /\ \A u \in {UnitMph, UnitFt, UnitDeg, UnitRpm, UnitPerS} :
             InTextOrder(FindAll(Pat(FALSE, u), n))

\* C5: the extracted sequence is the unit-pattern matches in priority order
\* followed by the generic matches, each pattern's matches in text order,
\* nothing removed; a number matched by a unit pattern and by the generic
\* pattern is in both parts with the same value; the text
\* "85.3 mph 112.mph" gives 85.3, 112.0, 85.3, 112.0.
C5_PriorityConcatenation ==
  /\ ConcatenatedInPriorityOrder
  /\ (pc = "extracted") =>
       LET n == Normalize(Get(text))
           U == UnitMatches(n)
           G == GenericMatches(n)
           ns == Get(numbers)
       IN  /\ \A i \in 1..Len(U) : \A j \in 1..Len(G) :
                SamePrintedNumber(U[i], G[j])
                  => FloatEq(Float(U[i].group), Float(G[j].group))
           /\ (Get(text) = ScenarioUnits)
                => (ns = <<F85_3, F112, F85_3, F112>>)

\* C7: a token with two decimal points, such as "1.2.3", contributes no value
\* to the sequence, neither as a whole nor by a fragment.
C7_TwoPointTokenExcluded ==
  (pc = "extracted" /\ Get(text) = ScenarioTwoPoints) => (Get(numbers) = <<>>)

\* C8: when the text holds no digit after normalization the sequence is
\* empty, and for an empty sequence the call returns (it does not raise) a
\* mapping whose fields are all null with confidence exactly 0.0.
C8_EmptySequence ==
  /\ (~IsNone(numbers)
        /\ \A i \in 1..Len(Get(text)) : ~IsDigit(Normalize(Get(text))[i]))
       => (Get(numbers) = <<>>)
  /\ (~IsNone(numbers) /\ Get(numbers) = <<>>) => ~PipelineRaised
  /\ (Returned /\ Get(numbers) = <<>>)
       => /\ AllNull(Get(ret).data)
          /\ Get(ret).confidence = Zero
          /\ Keys(Get(ret).data) = LayoutOf(display_type(request))

\* C8 witness: a TABLET mapping returned for a non-empty text without digits.
C8_Witness ==
  /\ Returned
  /\ display_type(request) = "ipad"
  /\ Get(text) # <<>>
  /\ Get(numbers) = <<>>

\* C9: normalizing a normalized text changes nothing, and the numbers of the
\* normalized text are the numbers of the text.
C9_NormalizeIdempotent ==
  ~IsNone(text) =>
    /\ Normalize(Normalize(Get(text))) = Normalize(Get(text))
    /\ \A i \in 1..Len(Get(text)) :
         Normalize(Get(text))[i] \notin {UpperO, LowerO, LowerL, UpperI}
    /\ (pc = "extracted")
         => (extract_numbers_from_text(Normalize(Get(text))) = Get(numbers))

\* C9 witness: a text holding all four confused letters has been extracted.
C9_Witness ==
  /\ pc = "extracted"
  /\ Get(text) = ScenarioConfused
  /\ Get(numbers) = <<[neg |-> FALSE, bits |-> <<1, 0, 1, 1>>, exp |-> 3]>>

\* C6: when preprocessing or the OCR engine fails, no later stage runs, no
\* mapping and no confidence reaches the caller, the failure is one error,
\* and each of the two stages is invoked at most once per call.
C6_FailureAborts ==
  /\ Count(calls, "preprocess_image") <= 1
  /\ Count(calls, "image_to_string") <= 1
  /\ (request.image = Some("garbage") /\ calls # <<>>)
       => (PipelineRaised /\ calls = <<"preprocess_image">>)
  /\ PipelineRaised =>
       /\ IsNone(text) /\ IsNone(numbers)
       /\ calls \in {<<"preprocess_image">>,
                     <<"preprocess_image", "image_to_string">>}
       /\ pc \in {"raised", "responded"}
       /\ ~IsNone(response) =>
            /\ IsNone(Get(response).data)
            /\ IsNone(Get(response).confidence)
            /\ IsNone(Get(response).raw_text)
            /\ ~IsNone(Get(response).error)
            /\ Get(response).status = 500

\* C6 witness: the OCR engine raised and the view has answered.
C6_Witness ==
  /\ pc = "responded"
  /\ PipelineRaised
  /\ calls = <<"preprocess_image", "image_to_string">>

\* The metric columns a returned mapping leaves on the shot.
MetricsOf(data) ==
  [f \in ShotFields |->
     IF \E j \in 1..Len(data) : data[j][1] = f /\ ~IsNone(data[j][2])
       THEN Lookup(data, f) ELSE None]

\* A step of process_image whose shot.save() stores the Shot row: the
\* answers that carry a shot_id are those after a save that did not raise.
ViewSaves ==
  /\ pc \in {"returned", "raised"}
  /\ pc' = "responded"
  /\ ~IsNone(Get(response').shot_id)

\* The row of the view's shot as stored after the step.
SavedRow == CHOOSE r \in shots' : r.id = Get(shot').id

\* process_image answers.
ViewAnswers == pc # "responded" /\ pc' = "responded"

\* C10: after the Shot row is created, the view saves the row with
\* processed = True and a confidence_score only if the pipeline returned, and
\* then the row holds exactly the non-null mapped values; if the pipeline
\* raised, the view saves the row with a non-empty processing_errors,
\* processed False, confidence_score and every metric null, and answers an
\* error carrying the shot_id; the view saves no row with processed True
\* together with a non-empty processing_errors.
C10_ShotOutcome ==
  [][ /\ ViewSaves =>
           LET row == SavedRow
           IN  /\ \E r \in shots' : r.id = Get(shot').id
               /\ ~(row.processed /\ row.processing_errors # "")
               /\ (row.processed \/ ~IsNone(row.confidence_score))
                    => /\ Returned
                       /\ row.processed
                       /\ row.confidence_score = Some(Get(ret).confidence)
                       /\ row.metrics = MetricsOf(Get(ret).data)
      /\ (ViewAnswers /\ PipelineRaised /\ ~IsNone(shot))
           => /\ ViewSaves
              /\ SavedRow.processing_errors # ""
              /\ ~SavedRow.processed
              /\ IsNone(SavedRow.confidence_score)
              /\ \A f \in ShotFields : IsNone(SavedRow.metrics[f])
              /\ ~IsNone(Get(response').error)
              /\ Get(response').shot_id = Some(SavedRow.id)
              /\ Get(response').status = 500
    ]_vars
====
